---- MODULE Spec2Model ----
(***************************************************************************)
(* Model of the hallucination-labelling core of mhmadsak/LLm-proj:         *)
(*   - the Span Aggregator, src/src/spans.py (compute_spans and helpers)   *)
(*   - the Statement Splitter, src/src/splitting.py (split_en_general)     *)
(*   - the Verifier adapter, src/src/verify.py (verify_word_probs)         *)
(*   - the per-record pipeline, src/src/pipeline.py (HalluSearch_inference)*)
(*                                                                         *)
(* Texts are sequences of one-character strings with 1-based positions;    *)
(* every offset the program exposes (spans, find results) is kept 0-based  *)
(* and half-open as in Python.  Probabilities are exact numbers written in *)
(* hundredths (50 is 0.5); a combined probability is the reduced fraction  *)
(* <<num, den>> of hundredths, so that the mean is exact.                  *)
(***************************************************************************)
EXTENDS Integers, Sequences, FiniteSets, TLC

VARIABLES
    \* ---- compute_spans (src/src/spans.py) ----
    answer_text,    \* argument: the answer the offsets refer to
    threshold,      \* argument, hundredths
    combine,        \* argument: "max" | "mean" | "min"
    orig,           \* loop variable of `for orig, v in zip(originals, verifs)`
    v,              \* loop variable: the verification paired with orig
    npairs,         \* number of pairs consumed from zip(originals, verifs)
    acc,            \* the insertion-ordered dict: <<[key, vals], ...>>
    log,            \* history: every (key, p) handed to acc...append(p), in order
    soft,           \* returned soft labels
    hard,           \* returned hard labels
    pc,             \* "loop" | "done" ("idle" while the splitter is modelled)
    \* ---- split_en_general (src/src/splitting.py) ----
    model_input,    \* argument: the raw question text
    model_output,   \* argument: the raw answer text
    max_items,      \* argument
    out,            \* the candidate list built by the stages
    dedup,          \* the returned list
    stage,          \* "qa" | "sentences" | "bullets" | "fallback" | "dedup" | "return"
    \* ---- verify_word_probs (src/src/verify.py) ----
    vanchor,        \* argument original_substring
    vmode,          \* "offline" | "nocontext" | "online": OFFLINE / API_KEY / context
    response,       \* what the DeepSeek call yields for the prompt
    ret,            \* the outcome: a returned dict, or an exception raised
    vpc             \* "call" | "done" ("idle" while another part is modelled)

aggVars == <<answer_text, threshold, combine, orig, v, npairs, acc, log, soft, hard, pc>>
splitVars == <<model_input, model_output, max_items, out, dedup, stage>>
verVars == <<vanchor, vmode, response, ret, vpc>>
vars == <<aggVars, splitVars, verVars>>

-----------------------------------------------------------------------------
\* Bounds of the explored inputs.
MaxAnswerLen == 3
MaxOrigLen == 3
MaxProbs == 2
MaxPairs == 2
MaxQPieces == 2
MaxAPieces == 3
MaxItems == 2
MaxPipePieces == 3
MaxEntries == 3

\* Characters of the aggregator's texts and the probability entries a
\* verification may carry (hundredths; 150 is out of range).
AggAlphabet == {"a", " "}
ProbVals == {20, 90, 150}
Thresholds == {50, 90}
CombineModes == {"max", "mean", "min"}

\* The neutral default 0.5 of spans.py, in hundredths.
NeutralProb == 50

\* The defaults of compute_spans' threshold and combine parameters.
DefaultThreshold == 50
DefaultCombine == "max"

Whitespace == {" ", "\n", "\t"}

-----------------------------------------------------------------------------
\* Generic helpers on sequences.

SeqsUpTo(S, n) == UNION {[1..k -> S] : k \in 0..n}

Slice(s, lo, hi) == [k \in 1..(hi - lo) |-> s[lo + k]]     \* Python s[lo:hi], 0-based

Range(s) == {s[k] : k \in 1..Len(s)}

RECURSIVE SumSeq(_)
SumSeq(s) == IF s = <<>> THEN 0 ELSE s[1] + SumSeq(Tail(s))

RECURSIVE GCD(_, _)
GCD(a, b) == IF b = 0 THEN a ELSE GCD(b, a % b)

Abs(x) == IF x < 0 THEN -x ELSE x

\* The fraction n/d (d > 0) in lowest terms.
Frac(n, d) == LET g == GCD(Abs(n), d) IN <<n \div g, d \div g>>

FracGeq(f, t) == f[1] >= t * f[2]       \* f >= t, t an integer

-----------------------------------------------------------------------------
\* src/src/spans.py

\* _TOKEN_RE = \S+ ; finditer yields the maximal runs of non-whitespace.
RECURSIVE TokScan(_, _, _, _)
TokScan(text, p, start, res) ==
    IF p > Len(text)
    THEN IF start >= 0
         THEN Append(res, [i |-> Len(res), start |-> start, end |-> Len(text)])
         ELSE res
    ELSE IF text[p] \in Whitespace
         THEN IF start >= 0
              THEN TokScan(text, p + 1, -1,
                           Append(res, [i |-> Len(res), start |-> start, end |-> p - 1]))
              ELSE TokScan(text, p + 1, -1, res)
         ELSE TokScan(text, p + 1, IF start >= 0 THEN start ELSE p - 1, res)

_tokenize_with_spans(text) == TokScan(text, 1, -1, <<>>)

\* str.find: the lowest 0-based index where sub occurs, -1 when it does not.
Find(text, sub) ==
    LET hits == {k \in 0..(Len(text) - Len(sub)) : Slice(text, k, k + Len(sub)) = sub}
    IN IF hits = {} THEN -1 ELSE CHOOSE k \in hits : \A j \in hits : k <= j

\* Lexicographic order of two [s, e] lists, as sorted() compares them.
SpanLeq(x, y) == x[1] < y[1] \/ (x[1] = y[1] /\ x[2] <= y[2])

RemoveAt(s, k) == [j \in 1..(Len(s) - 1) |-> IF j < k THEN s[j] ELSE s[j + 1]]

RECURSIVE SortSpans(_)
SortSpans(s) ==
    IF s = <<>> THEN <<>>
    ELSE LET k == CHOOSE k \in 1..Len(s) :
                    /\ \A j \in 1..Len(s) : SpanLeq(s[k], s[j])
                    /\ \A j \in 1..(k - 1) : s[j] # s[k]
         IN <<s[k]>> \o SortSpans(RemoveAt(s, k))

Max2(a, b) == IF a >= b THEN a ELSE b

\* Variant of the merge loop that merges on overlap only (s < le).
RECURSIVE MergeLoop_strict(_, _)
MergeLoop_strict(rest, res) ==
    IF rest = <<>> THEN res
    ELSE LET s == rest[1][1]
             e == rest[1][2]
             ls == res[Len(res)][1]
             le == res[Len(res)][2]
         IN IF s < le
            THEN MergeLoop_strict(Tail(rest), [res EXCEPT ![Len(res)] = <<ls, Max2(le, e)>>])
            ELSE MergeLoop_strict(Tail(rest), Append(res, <<s, e>>))

RECURSIVE MergeLoop(_, _)
MergeLoop(rest, res) ==
    IF rest = <<>> THEN res
    ELSE LET s == rest[1][1]
             e == rest[1][2]
             ls == res[Len(res)][1]
             le == res[Len(res)][2]
         IN IF s <= le
            THEN MergeLoop(Tail(rest), [res EXCEPT ![Len(res)] = <<ls, Max2(le, e)>>])
            ELSE MergeLoop(Tail(rest), Append(res, <<s, e>>))

\* Variant that runs the merge loop over the spans as given, unsorted.
_merge_adjacent_unsorted(spans) ==
    IF spans = <<>> THEN <<>>
    ELSE MergeLoop(Tail(spans), <<spans[1]>>)

_merge_adjacent(spans) ==
    IF spans = <<>> THEN <<>>
    ELSE LET sorted == SortSpans(spans)
         IN MergeLoop(Tail(sorted), <<sorted[1]>>)

MaxOf(vals) == CHOOSE x \in Range(vals) : \A y \in Range(vals) : x >= y
MinOf(vals) == CHOOSE x \in Range(vals) : \A y \in Range(vals) : x <= y

_combine(vals, mode) ==
    IF vals = <<>> THEN Frac(NeutralProb, 1)
    ELSE IF mode = "mean" THEN Frac(SumSeq(vals), Len(vals))
    ELSE IF mode = "min" THEN Frac(MinOf(vals), 1)
    ELSE Frac(MaxOf(vals), 1)

\* `not isinstance(v, dict) or "token_probs" not in v`
Malformed(ver) == ~ver.isdict \/ ~ver.has_token_probs

\* Variant that pads a missing entry with 0 instead of the neutral value.
TokenProb_zero(probs, i) == IF i < Len(probs) THEN probs[i + 1] ELSE 0

\* p = float(probs[i]) if i < len(probs) else 0.5      (i is 0-based)
TokenProb(probs, i) == IF i < Len(probs) THEN probs[i + 1] ELSE NeutralProb

\* acc.setdefault(key, []).append(p)
KeyIndex(a, key) ==
    IF \E j \in 1..Len(a) : a[j].key = key
    THEN CHOOSE j \in 1..Len(a) : a[j].key = key
    ELSE 0

\* Variant that overwrites the list of an already-seen key.
SetDefaultAppend_overwrite(a, key, p) ==
    LET j == KeyIndex(a, key)
    IN IF j = 0
       THEN Append(a, [key |-> key, vals |-> <<p>>])
       ELSE [a EXCEPT ![j].vals = <<p>>]

\* Variant that re-inserts an already-seen key at the end of the dict.
SetDefaultAppend_reinsert(a, key, p) ==
    LET j == KeyIndex(a, key)
    IN IF j = 0
       THEN Append(a, [key |-> key, vals |-> <<p>>])
       ELSE Append(RemoveAt(a, j), [key |-> key, vals |-> Append(a[j].vals, p)])

SetDefaultAppend(a, key, p) ==
    LET j == KeyIndex(a, key)
    IN IF j = 0
       THEN Append(a, [key |-> key, vals |-> <<p>>])
       ELSE [a EXCEPT ![j].vals = Append(@, p)]

\* Variant without the `if base < 0: continue` guard.
PairEntries_noskip(text, o, ver) ==
    IF Malformed(ver) THEN <<>>
    ELSE LET base == Find(text, o)
             toks == _tokenize_with_spans(o)
         IN [k \in 1..Len(toks) |->
                <<<<base + toks[k].start, base + toks[k].end>>,
                  TokenProb(ver.token_probs, toks[k].i)>>]

\* The entries one pair hands to acc, in token order: <<key, p>> per token.
PairEntries(text, o, ver) ==
    IF Malformed(ver) THEN <<>>
    ELSE LET base == Find(text, o)
         IN IF base < 0 THEN <<>>
            ELSE LET toks == _tokenize_with_spans(o)
                 IN [k \in 1..Len(toks) |->
                        <<<<base + toks[k].start, base + toks[k].end>>,
                          TokenProb(ver.token_probs, toks[k].i)>>]

RECURSIVE Accumulate(_, _)
Accumulate(a, entries) ==
    IF entries = <<>> THEN a
    ELSE Accumulate(SetDefaultAppend(a, entries[1][1], entries[1][2]), Tail(entries))

\* soft = [{"start": s, "end": e, "prob": p} for (s, e), vals in acc.items()]
SoftOf(a, mode) ==
    [k \in 1..Len(a) |->
        [start |-> a[k].key[1], end |-> a[k].key[2], prob |-> _combine(a[k].vals, mode)]]

RECURSIVE SelectSeqIdx(_, _, _)
SelectSeqIdx(s, keep, k) ==
    IF k > Len(s) THEN <<>>
    ELSE (IF keep[k] THEN <<s[k]>> ELSE <<>>) \o SelectSeqIdx(s, keep, k + 1)

\* Variant with an exclusive boundary (prob > threshold).
PassingSpans_exclusive(sf, th) ==
    LET spans == [k \in 1..Len(sf) |-> <<sf[k].start, sf[k].end>>]
        keep == [k \in 1..Len(sf) |-> sf[k].prob[1] > th * sf[k].prob[2]]
    IN SelectSeqIdx(spans, keep, 1)

\* [[d["start"], d["end"]] for d in soft if d["prob"] >= threshold]
PassingSpans(sf, th) ==
    LET spans == [k \in 1..Len(sf) |-> <<sf[k].start, sf[k].end>>]
        keep == [k \in 1..Len(sf) |-> FracGeq(sf[k].prob, th)]
    IN SelectSeqIdx(spans, keep, 1)

HardOf(sf, th) == _merge_adjacent(PassingSpans(sf, th))

-----------------------------------------------------------------------------
\* src/src/splitting.py: characters and string primitives.

Ellipsis == "ELLIPSIS"      \* the glyph U+2026, one character
BulletGlyph == "BULLET"     \* the glyph U+2022, one character

LowerLetters == <<"a", "b", "c", "d", "e", "f", "g", "h", "i", "j", "k", "l", "m", "n", "o", "p", "q", "r", "s", "t", "u", "v", "w", "x", "y", "z">>
UpperLetters == <<"A", "B", "C", "D", "E", "F", "G", "H", "I", "J", "K", "L", "M", "N", "O", "P", "Q", "R", "S", "T", "U", "V", "W", "X", "Y", "Z">>
Digits == {"0", "1", "2", "3", "4", "5", "6", "7", "8", "9"}
Letters == Range(LowerLetters) \cup Range(UpperLetters)
WordChars == Letters \cup Digits \cup {"_"}        \* \w

\* str.lower()
LowerChar(c) ==
    IF \E k \in 1..Len(UpperLetters) : UpperLetters[k] = c
    THEN LowerLetters[CHOOSE k \in 1..Len(UpperLetters) : UpperLetters[k] = c]
    ELSE c

Lower(s) == [k \in 1..Len(s) |-> LowerChar(s[k])]

AllWS(s) == \A k \in 1..Len(s) : s[k] \in Whitespace

\* Number of whitespace characters at the start of s / at its end.
LeadWS(s) ==
    IF AllWS(s) THEN Len(s)
    ELSE (CHOOSE k \in 1..Len(s) :
              s[k] \notin Whitespace /\ \A j \in 1..(k - 1) : s[j] \in Whitespace) - 1

TrailWS(s) ==
    IF AllWS(s) THEN Len(s)
    ELSE Len(s) - (CHOOSE k \in 1..Len(s) :
              s[k] \notin Whitespace /\ \A j \in (k + 1)..Len(s) : s[j] \in Whitespace)

\* str.strip()
Strip(s) == IF AllWS(s) THEN <<>> ELSE Slice(s, LeadWS(s), Len(s) - TrailWS(s))

\* s.replace(ELLIPSIS, " ")
ReplaceEllipsis(s) == [k \in 1..Len(s) |-> IF s[k] = Ellipsis THEN " " ELSE s[k]]

\* re.sub(r"\s+", " ", s)
RECURSIVE CollapseWS(_)
CollapseWS(s) ==
    IF s = <<>> THEN <<>>
    ELSE IF s[1] \in Whitespace
         THEN <<" ">> \o CollapseWS(Slice(s, LeadWS(s), Len(s)))
         ELSE <<s[1]>> \o CollapseWS(Tail(s))

_clean(s) == CollapseWS(Strip(ReplaceEllipsis(s)))

\* str.split(): the whitespace-delimited tokens
SplitWS(s) ==
    LET toks == _tokenize_with_spans(s)
    IN [k \in 1..Len(toks) |-> Slice(s, toks[k].start, toks[k].end)]

\* " ".join(parts)
RECURSIVE JoinSpace(_)
JoinSpace(parts) ==
    IF parts = <<>> THEN <<>>
    ELSE IF Len(parts) = 1 THEN parts[1]
    ELSE parts[1] \o <<" ">> \o JoinSpace(Tail(parts))

\* (a.split()[:1] or [""])[0]
FirstToken(s) == LET parts == SplitWS(s) IN IF parts = <<>> THEN <<>> ELSE parts[1]

EndsWith(s, c) == s # <<>> /\ s[Len(s)] = c

\* 0-based position of the first non-whitespace character at or after p.
RECURSIVE SkipWS(_, _)
SkipWS(s, p) ==
    IF p < Len(s) /\ s[p + 1] \in Whitespace THEN SkipWS(s, p + 1) ELSE p

\* The lowercase literal w matches s at 0-based position p, case ignored (re.I).
LitAt(s, p, w) == p + Len(w) <= Len(s) /\ Lower(Slice(s, p, p + Len(w))) = w

\* \b at 0-based position p.
WordBoundary(s, p) ==
    (p > 0 /\ s[p] \in WordChars) # (p < Len(s) /\ s[p + 1] \in WordChars)

-----------------------------------------------------------------------------
\* src/src/splitting.py: configuration and question classification.

YES_WORDS ==
    {<<"y", "e", "s">>, <<"y", "e", "a", "h">>, <<"y", "e", "p">>,
     <<"c", "e", "r", "t", "a", "i", "n", "l", "y">>,
     <<"i", "n", "d", "e", "e", "d">>,
     <<"a", "f", "f", "i", "r", "m", "a", "t", "i", "v", "e">>,
     <<"c", "o", "r", "r", "e", "c", "t">>, <<"t", "r", "u", "e">>,
     <<"r", "i", "g", "h", "t">>}
NO_WORDS ==
    {<<"n", "o">>, <<"n", "o", "p", "e">>, <<"n", "a", "h">>,
     <<"f", "a", "l", "s", "e">>,
     <<"i", "n", "c", "o", "r", "r", "e", "c", "t">>,
     <<"w", "r", "o", "n", "g">>}

BE_WORDS ==
    {<<"i", "s">>, <<"a", "r", "e">>, <<"w", "a", "s">>,
     <<"w", "e", "r", "e">>}
DO_WORDS ==
    {<<"d", "o">>, <<"d", "o", "e", "s">>, <<"d", "i", "d">>}
MODAL_WORDS ==
    {<<"c", "a", "n">>, <<"c", "o", "u", "l", "d">>, <<"w", "i", "l", "l">>,
     <<"w", "o", "u", "l", "d">>, <<"s", "h", "o", "u", "l", "d">>,
     <<"m", "a", "y">>, <<"m", "i", "g", "h", "t">>, <<"m", "u", "s", "t">>}
HAVE_WORDS ==
    {<<"h", "a", "s">>, <<"h", "a", "v", "e">>, <<"h", "a", "d">>}
WH_WORDS ==
    {<<"w", "h", "o">>, <<"w", "h", "a", "t">>, <<"w", "h", "e", "r", "e">>,
     <<"w", "h", "e", "n">>, <<"w", "h", "i", "c", "h">>, <<"h", "o", "w">>,
     <<"w", "h", "y">>}

\* re.match(r"^\s*(is|are|...|must)\b", q, flags=re.I)
_is_yesno_question(q) ==
    LET p == SkipWS(q, 0)
    IN \E w \in BE_WORDS \cup DO_WORDS \cup HAVE_WORDS \cup MODAL_WORDS :
          LitAt(q, p, w) /\ WordBoundary(q, p + Len(w))

\* re.match(r"^\s*(who|what|where|when|which|how|why)\b", q, flags=re.I)
_is_wh_question(q) ==
    LET p == SkipWS(q, 0)
    IN \E w \in WH_WORDS : LitAt(q, p, w) /\ WordBoundary(q, p + Len(w))

\* re.match(r"^\s*(w1|w2|...)\s+(.*)$", stem, flags=re.I): the alternative
\* that matched, lowercased, and the rest (which `.` keeps free of newlines).
AuxMatch(stem, words) ==
    LET p == SkipWS(stem, 0)
        after(w) == SkipWS(stem, p + Len(w))
        cands == {w \in words :
                    /\ LitAt(stem, p, w)
                    /\ after(w) > p + Len(w)
                    /\ \A k \in (after(w) + 1)..Len(stem) : stem[k] # "\n"}
    IN IF cands = {} THEN [ok |-> FALSE, word |-> <<>>, rest |-> <<>>]
       ELSE LET w == CHOOSE w \in cands : TRUE
            IN [ok |-> TRUE, word |-> w, rest |-> Slice(stem, after(w), Len(stem))]

-----------------------------------------------------------------------------
\* src/src/splitting.py: QA -> declarative heuristics.

Dot == <<".">>
Sp == <<" ">>
T_not == <<"n", "o", "t">>
T_does_not == <<"d", "o", "e", "s", " ", "n", "o", "t">>
T_cannot == <<"c", "a", "n", "n", "o", "t">>
T_located_in == <<"l", "o", "c", "a", "t", "e", "d", " ", "i", "n">>
T_in == <<"i", "n">>
T_There_are == <<"T", "h", "e", "r", "e", " ", "a", "r", "e">>
T_The_amount_is == <<"T", "h", "e", " ", "a", "m", "o", "u", "n", "t", " ", "i", "s">>
W_can == <<"c", "a", "n">>
W_who == <<"w", "h", "o">>
W_what == <<"w", "h", "a", "t">>
W_where == <<"w", "h", "e", "r", "e">>
W_when == <<"w", "h", "e", "n">>
W_how == <<"h", "o", "w">>
W_many == <<"m", "a", "n", "y">>
W_much == <<"m", "u", "c", "h">>
WHAT_ALTS == {<<"i", "s">>, <<"a", "r", "e">>}
WHERE_ALTS == {<<"i", "s">>, <<"w", "a", "s">>, <<"a", "r", "e">>, <<"w", "e", "r", "e">>}
WHEN_ALTS == {<<"d", "i", "d">>, <<"w", "a", "s">>, <<"w", "e", "r", "e">>, <<"i", "s">>}

\* first = (a.split()[:1] or [""])[0].lower();
\* polarity = True if first in YES_WORDS else False if first in NO_WORDS else True
Polarity(a) ==
    LET first == Lower(FirstToken(a))
    IN IF first \in YES_WORDS THEN TRUE
       ELSE IF first \in NO_WORDS THEN FALSE
       ELSE TRUE

\* Returns <<statement, answer_anchor>>.
_qa_to_statement_yesno(q0, a0) ==
    LET q == _clean(q0)
        a == _clean(a0)
        polarity == Polarity(a)
        stem == IF EndsWith(q, "?") THEN Slice(q, 0, Len(q) - 1) ELSE q
        anchor == FirstToken(a)
        be == AuxMatch(stem, BE_WORDS)
        do == AuxMatch(stem, DO_WORDS)
        modal == AuxMatch(stem, MODAL_WORDS)
        have == AuxMatch(stem, HAVE_WORDS)
    IN IF q = <<>> THEN <<<<>>, <<>>>>
       ELSE IF be.ok THEN
           IF polarity THEN <<Strip(be.rest \o Dot), anchor>>
           ELSE LET parts == SplitWS(be.rest)
                IN IF Len(parts) >= 2
                   THEN <<Strip(parts[1] \o Sp \o be.word \o Sp \o T_not \o Sp
                                \o JoinSpace(Tail(parts)) \o Dot), anchor>>
                   ELSE <<Strip(be.rest \o Sp \o T_not \o Dot), anchor>>
       ELSE IF do.ok THEN
           IF polarity THEN <<Strip(do.rest \o Dot), anchor>>
           ELSE LET parts == SplitWS(do.rest)
                IN IF Len(parts) >= 2
                   THEN <<Strip(parts[1] \o Sp \o T_does_not \o Sp
                                \o JoinSpace(Tail(parts)) \o Dot), anchor>>
                   ELSE <<Strip(T_not \o Sp \o do.rest \o Dot), anchor>>
       ELSE IF modal.ok THEN
           IF polarity THEN <<Strip(modal.rest \o Dot), anchor>>
           ELSE LET neg == IF modal.word = W_can THEN T_cannot
                           ELSE modal.word \o Sp \o T_not
                IN <<Strip(modal.rest \o Sp \o neg \o Dot), anchor>>
       ELSE IF have.ok THEN
           IF polarity THEN <<Strip(have.rest \o Dot), anchor>>
           ELSE <<Strip(have.word \o Sp \o T_not \o Sp \o have.rest \o Dot), anchor>>
       ELSE <<Strip(stem \o Dot), anchor>>

\* Length up to which the wh path uses the whole answer as answer_short.
ShortLimit == 80

\* a.split(".")[0]
BeforeFirstDot(a) ==
    IF \E k \in 1..Len(a) : a[k] = "."
    THEN Slice(a, 0, (CHOOSE k \in 1..Len(a) : a[k] = "." /\ \A j \in 1..(k - 1) : a[j] # ".") - 1)
    ELSE a

\* Position after the literal words of lead, each followed by \s+; -1 if they
\* do not match at p.
RECURSIVE LeadEnd(_, _, _)
LeadEnd(q, p, lead) ==
    IF lead = <<>> THEN p
    ELSE LET e == p + Len(lead[1])
         IN IF LitAt(q, p, lead[1]) /\ SkipWS(q, e) > e
            THEN LeadEnd(q, SkipWS(q, e), Tail(lead))
            ELSE -1

\* re.match(r"^\s*lead\s+(alt1|alt2)\s+(.*)\?\s*$", q, flags=re.I), the
\* alternation being absent when alts is empty: the alternative (lowercased)
\* and the text captured by (.*).
WhMatch(q, lead, alts) ==
    LET none == [ok |-> FALSE, word |-> <<>>, rest |-> <<>>]
        p1 == LeadEnd(q, SkipWS(q, 0), lead)
        cands == {w \in alts : LitAt(q, p1, w) /\ SkipWS(q, p1 + Len(w)) > p1 + Len(w)}
    IN IF p1 < 0 \/ (alts # {} /\ cands = {}) THEN none
       ELSE LET w == IF alts = {} THEN <<>> ELSE CHOOSE w \in cands : TRUE
                p2 == IF alts = {} THEN p1 ELSE SkipWS(q, p1 + Len(w))
                marks == {j \in p2..(Len(q) - 1) :
                            /\ q[j + 1] = "?"
                            /\ \A k \in (j + 2)..Len(q) : q[k] \in Whitespace
                            /\ \A k \in (p2 + 1)..j : q[k] # "\n"}
            IN IF marks = {} THEN none
               ELSE [ok |-> TRUE, word |-> w,
                     rest |-> Slice(q, p2, CHOOSE j \in marks : \A i \in marks : i <= j)]

\* Returns <<statement, anchor>>; the anchor is the cleaned answer.
_qa_to_statement_wh(q0, a0) ==
    LET q == _clean(q0)
        a == _clean(a0)
        a_short == IF Len(a) <= ShortLimit THEN a ELSE BeforeFirstDot(a)
        who == WhMatch(q, <<W_who>>, {})
        what == WhMatch(q, <<W_what>>, WHAT_ALTS)
        where == WhMatch(q, <<W_where>>, WHERE_ALTS)
        when == WhMatch(q, <<W_when>>, WHEN_ALTS)
        many == WhMatch(q, <<W_how, W_many>>, {})
        much == WhMatch(q, <<W_how, W_much>>, {})
    IN IF a_short = <<>> THEN <<<<>>, <<>>>>
       ELSE IF who.ok THEN <<Strip(a_short \o Sp \o who.rest \o Dot), a>>
       ELSE IF what.ok THEN
           <<Strip(what.rest \o Sp \o what.word \o Sp \o a_short \o Dot), a>>
       ELSE IF where.ok THEN
           <<Strip(where.rest \o Sp \o where.word \o Sp \o T_located_in \o Sp
                   \o a_short \o Dot), a>>
       ELSE IF when.ok THEN <<Strip(when.rest \o Sp \o T_in \o Sp \o a_short \o Dot), a>>
       ELSE IF many.ok THEN
           <<Strip(T_There_are \o Sp \o a_short \o Sp \o many.rest \o Dot), a>>
       ELSE IF much.ok THEN <<Strip(T_The_amount_is \o Sp \o a_short \o Dot), a>>
       ELSE <<Strip(q \o Sp \o a_short) \o Dot, a>>

-----------------------------------------------------------------------------
\* src/src/splitting.py: bullet / numbered lines.

\* text.splitlines(keepends=True) as 0-based <<lo, hi>> spans; a line ends
\* after its "\n".
RECURSIVE LineSpans(_, _)
LineSpans(text, p) ==
    IF p >= Len(text) THEN <<>>
    ELSE LET brk == {k \in (p + 1)..Len(text) : text[k] = "\n"}
             e == IF brk = {} THEN Len(text) ELSE CHOOSE k \in brk : \A j \in brk : k <= j
         IN <<<<p, e>>>> \o LineSpans(text, e)

RECURSIVE SkipDigits(_, _)
SkipDigits(s, p) ==
    IF p < Len(s) /\ s[p + 1] \in Digits THEN SkipDigits(s, p + 1) ELSE p

\* BULLET_RE.match(line): whether it matches and the span of group "txt".
\*   ^\s*(?:[-*BULLET]\s+|(?:\d+|[a-zA-Z])[\.\)]\s+)(?P<txt>.+?)\s*$
BulletMatch(line) ==
    LET none == [ok |-> FALSE, lo |-> 0, hi |-> 0]
        n == Len(line)
        p == SkipWS(line, 0)
        d == SkipDigits(line, p)
        m == IF p >= n THEN -1
             ELSE IF line[p + 1] \in {"-", "*", BulletGlyph} THEN p + 1
             ELSE IF d > p /\ d < n /\ line[d + 1] \in {".", ")"} THEN d + 1
             ELSE IF line[p + 1] \in Letters /\ p + 1 < n /\ line[p + 2] \in {".", ")"}
                  THEN p + 2
             ELSE -1
        ws == IF m < 0 THEN m ELSE SkipWS(line, m)
        \* whitespace after the marker, without the line terminator
        wl == IF n > 0 /\ line[n] = "\n" /\ ws = n THEN n - 1 ELSE ws
    IN IF m < 0 \/ ws = m THEN none
       ELSE IF ws < n THEN [ok |-> TRUE, lo |-> ws, hi |-> n - TrailWS(line)]
       ELSE IF wl - m >= 2 THEN [ok |-> TRUE, lo |-> wl - 1, hi |-> wl]
       ELSE none

RECURSIVE BulletScan(_, _)
BulletScan(text, lines) ==
    IF lines = <<>> THEN <<>>
    ELSE LET pos == lines[1][1]
             m == BulletMatch(Slice(text, lines[1][1], lines[1][2]))
         IN (IF m.ok THEN <<<<pos + m.lo, pos + m.hi>>>> ELSE <<>>)
            \o BulletScan(text, Tail(lines))

\* Absolute (lo, hi) spans of the bullet / numbered lines of text.
_extract_bullets(text) == IF text = <<>> THEN <<>> ELSE BulletScan(text, LineSpans(text, 0))

-----------------------------------------------------------------------------
\* The sentence segmenter behind _load_en(): the tokenizer of the English
\* pipeline followed by the rule-based sentencizer.  A token is a word, one
\* punctuation character split off the start or end of a word, or a run of
\* whitespace; the single space after a token belongs to no token.  A new
\* sentence starts at the first non-punctuation token after a sentence-final
\* punctuation token, and the text of a sentence is the slice of the document
\* from its first token to the end of its last token.

Punct == {".", "!", "?", ",", ";", ":", "-", "*", "(", ")", Ellipsis, BulletGlyph}
SentFinal == {".", "!", "?"}

RECURSIVE SkipNonWS(_, _)
SkipNonWS(s, p) ==
    IF p < Len(s) /\ s[p + 1] \notin Whitespace THEN SkipNonWS(s, p + 1) ELSE p

Tok(lo, hi, kind) == [lo |-> lo, hi |-> hi, kind |-> kind]

\* The tokens of one whitespace-free chunk [lo, hi).
ChunkTokens(text, lo, hi) ==
    LET isP(k) == text[k + 1] \in Punct
        np == IF \A k \in lo..(hi - 1) : isP(k) THEN hi - lo
              ELSE (CHOOSE k \in lo..(hi - 1) : ~isP(k) /\ \A j \in lo..(k - 1) : isP(j)) - lo
        ns == IF np = hi - lo THEN 0
              ELSE hi - 1 - (CHOOSE k \in lo..(hi - 1) : ~isP(k) /\ \A j \in (k + 1)..(hi - 1) : isP(j))
    IN [k \in 1..np |-> Tok(lo + k - 1, lo + k, "punct")]
       \o (IF np = hi - lo THEN <<>> ELSE <<Tok(lo + np, hi - ns, "word")>>)
       \o [k \in 1..ns |-> Tok(hi - ns + k - 1, hi - ns + k, "punct")]

RECURSIVE SpacyScan(_, _, _)
SpacyScan(text, p, res) ==
    IF p >= Len(text) THEN res
    ELSE IF text[p + 1] \in Whitespace
         THEN IF /\ text[p + 1] = " "
                 /\ res # <<>>
                 /\ res[Len(res)].hi = p
                 /\ res[Len(res)].kind # "ws"
              THEN SpacyScan(text, p + 1, res)
              ELSE SpacyScan(text, SkipWS(text, p), Append(res, Tok(p, SkipWS(text, p), "ws")))
         ELSE SpacyScan(text, SkipNonWS(text, p),
                        res \o ChunkTokens(text, p, SkipNonWS(text, p)))

SpacyTokens(text) == SpacyScan(text, 0, <<>>)

\* Sentencizer: <<first, last>> token indexes of every sentence.
RECURSIVE SentScan(_, _, _, _, _, _)
SentScan(text, toks, i, start, seen, res) ==
    IF i > Len(toks)
    THEN IF start <= Len(toks) THEN Append(res, <<start, Len(toks)>>) ELSE res
    ELSE LET t == toks[i]
             final == t.kind = "punct" /\ text[t.lo + 1] \in SentFinal
         IN IF seen /\ t.kind # "punct"
            THEN SentScan(text, toks, i + 1, i, FALSE, Append(res, <<start, i - 1>>))
            ELSE SentScan(text, toks, i + 1, start, seen \/ final, res)

\* [sent.text for sent in nlp(text).sents] as 0-based <<lo, hi>> slices.
Sentences(text) ==
    LET toks == SpacyTokens(text)
        runs == SentScan(text, toks, 1, 1, FALSE, <<>>)
    IN [k \in 1..Len(runs) |-> <<toks[runs[k][1]].lo, toks[runs[k][2]].hi>>]

-----------------------------------------------------------------------------
\* src/src/splitting.py: split_en_general.

Item(f, o, g) == [factual_statement |-> f, original_substring |-> o, origin |-> g]

\* Variant that anchors the yes/no statement to the whole answer, as the wh
\* path does.
YesNoItems_wholeanswer(q, a) ==
    LET r == _qa_to_statement_yesno(q, a)
    IN IF r[1] # <<>> THEN <<Item(r[1], a, "qa_derived")>> ELSE <<>>

\* (1) the QA-derived statement of a yes/no question / of a wh question
YesNoItems(q, a) ==
    LET r == _qa_to_statement_yesno(q, a)
    IN IF r[1] # <<>>
       THEN <<Item(r[1], IF r[2] # <<>> THEN r[2] ELSE a, "qa_derived")>>
       ELSE <<>>

WhItems(q, a) ==
    LET r == _qa_to_statement_wh(q, a)
    IN IF r[1] # <<>>
       THEN <<Item(r[1], IF r[2] # <<>> THEN r[2] ELSE a, "qa_derived")>>
       ELSE <<>>

\* (2), (4) one statement per sentence whose stripped text is not empty
RECURSIVE SentenceItems(_, _, _)
SentenceItems(text, sents, origin) ==
    IF sents = <<>> THEN <<>>
    ELSE LET raw == Slice(text, sents[1][1], sents[1][2])
             s == Strip(raw)
         IN (IF s # <<>> THEN <<Item(s, raw, origin)>> ELSE <<>>)
            \o SentenceItems(text, Tail(sents), origin)

\* (3) one statement per bullet line whose stripped text is not empty
RECURSIVE BulletItems(_, _, _)
BulletItems(text, spans, origin) ==
    IF spans = <<>> THEN <<>>
    ELSE LET raw == Slice(text, spans[1][1], spans[1][2])
             fact == Strip(raw)
         IN (IF fact # <<>> THEN <<Item(fact, raw, origin)>> ELSE <<>>)
            \o BulletItems(text, Tail(spans), origin)

\* key = (item["factual_statement"].strip().lower(), item["original_substring"])
ItemKey(item) == <<Lower(Strip(item.factual_statement)), item.original_substring>>

\* Variant of the final loop that never consults `seen`.
RECURSIVE DedupLoop_keepall(_, _, _, _)
DedupLoop_keepall(items, seen, dd, cap) ==
    IF items = <<>> THEN dd
    ELSE LET dd2 == Append(dd, items[1])
         IN IF Len(dd2) >= cap THEN dd2
            ELSE DedupLoop_keepall(Tail(items), seen, dd2, cap)

\* The final loop: deduplicate (preserve order) and cap.
RECURSIVE DedupLoop(_, _, _, _)
DedupLoop(items, seen, dd, cap) ==
    IF items = <<>> THEN dd
    ELSE LET key == ItemKey(items[1])
             fresh == key \notin seen
             dd2 == IF fresh THEN Append(dd, items[1]) ELSE dd
         IN IF Len(dd2) >= cap THEN dd2
            ELSE DedupLoop(Tail(items), seen \cup {key}, dd2, cap)

-----------------------------------------------------------------------------
\* src/src/verify.py: verify_word_probs.

RecognizedVerdicts == {"SUPPORTED", "NOT SUPPORTED", "PARTIAL"}

\* The entries a token_probs list may hold: a number (hundredths), a string
\* that reads as a number, a blank string, a string that is not a number,
\* and anything else (null, a list, an object).
Entries ==
    {[t |-> "num", val |-> x] : x \in {-50, 20, 150}}
    \cup {[t |-> "numstr", val |-> 20], [t |-> "blank", val |-> 0],
          [t |-> "text", val |-> 0], [t |-> "other", val |-> 0]}

\* The outcomes of `content = _deepseek_json(prompt); data = json.loads(content)`:
\* the call or the parse fails, the text is JSON but not an object, or it is
\* an object whose "token_probs" and "verdict" keys may be absent or odd.
Responses ==
    {[kind |-> k, has_probs |-> FALSE, is_list |-> FALSE, items |-> <<>>,
      verdict |-> "absent"] : k \in {"unparseable", "nonobject"}}
    \cup {[kind |-> "object", has_probs |-> h, is_list |-> FALSE, items |-> <<>>,
           verdict |-> vd] :
              h \in BOOLEAN, vd \in RecognizedVerdicts \cup {"MAYBE", "absent"}}
    \cup {[kind |-> "object", has_probs |-> TRUE, is_list |-> TRUE, items |-> it,
           verdict |-> vd] :
              it \in SeqsUpTo(Entries, MaxEntries),
              vd \in RecognizedVerdicts \cup {"MAYBE", "absent"}}

Returned(vd, probs) == [raised |-> FALSE, verdict |-> vd, token_probs |-> probs]
Raised == [raised |-> TRUE, verdict |-> "none", token_probs |-> <<>>]

\* [x] * n
Repeat(x, n) == [k \in 1..n |-> x]

\* float(x) if isinstance(x, (int, float, str)) and str(x).strip() != "" else 0.5
\* float() of a string that is not a number raises ValueError.
FloatRaises(x) == x.t = "text"
CoerceEntry(x) == IF x.t \in {"num", "numstr"} THEN x.val ELSE NeutralProb

\* max(0.0, min(1.0, p))
Clamp(p) == IF p < 0 THEN 0 ELSE IF p > 100 THEN 100 ELSE p

\* probs[:n], then probs += [0.5] * (n - len(probs))
PadTrim(probs, n) == [k \in 1..n |-> IF k <= Len(probs) THEN probs[k] ELSE NeutralProb]

\* Lines 127-141: validate and coerce a parsed response.
CoerceResponse(n, resp) ==
    IF resp.kind # "object" THEN Raised                     \* data.get on a non-dict
    ELSE LET probs == IF resp.has_probs /\ resp.is_list THEN resp.items ELSE <<>>
         IN IF \E k \in 1..Len(probs) : FloatRaises(probs[k]) THEN Raised
            ELSE Returned(IF resp.verdict \in RecognizedVerdicts
                          THEN resp.verdict ELSE "UNKNOWN",
                          PadTrim([k \in 1..Len(probs) |-> Clamp(CoerceEntry(probs[k]))], n))

VerifyAnchors == {<<>>, <<"a">>, <<"a", " ", "b">>}
NoResponse == [kind |-> "unparseable", has_probs |-> FALSE, is_list |-> FALSE,
               items |-> <<>>, verdict |-> "absent"]
NoReturn == [raised |-> FALSE, verdict |-> "none", token_probs |-> <<>>]

\* The verifier is not running.
VerIdle ==
    /\ vanchor = <<>>
    /\ vmode = "offline"
    /\ response = NoResponse
    /\ ret = NoReturn
    /\ vpc = "idle"

-----------------------------------------------------------------------------
\* The verifications a caller may pair with an anchor.
Verifs ==
    {[isdict |-> FALSE, has_token_probs |-> FALSE, token_probs |-> <<>>],
     [isdict |-> TRUE, has_token_probs |-> FALSE, token_probs |-> <<>>]}
    \cup {[isdict |-> TRUE, has_token_probs |-> TRUE, token_probs |-> p] :
             p \in SeqsUpTo(ProbVals, MaxProbs)}

NoVerif == [isdict |-> FALSE, has_token_probs |-> FALSE, token_probs |-> <<>>]

\* The splitter is not running.
SplitIdle ==
    /\ model_input = <<>>
    /\ model_output = <<>>
    /\ max_items = 0
    /\ out = <<>>
    /\ dedup = <<>>
    /\ stage = "idle"

AggInit ==
    /\ answer_text \in SeqsUpTo(AggAlphabet, MaxAnswerLen)
    /\ threshold \in Thresholds
    /\ combine \in CombineModes
    /\ orig = <<>>
    /\ v = NoVerif
    /\ npairs = 0
    /\ acc = <<>>
    /\ log = <<>>
    /\ soft = <<>>
    /\ hard = <<>>
    /\ pc = "loop"
    /\ SplitIdle
    /\ VerIdle

\* One iteration of `for orig, v in zip(originals, verifs)` (lines 44-56).
Iterate ==
    /\ pc = "loop"
    /\ npairs < MaxPairs
    /\ \E o \in SeqsUpTo(AggAlphabet, MaxOrigLen), ver \in Verifs :
        LET entries == PairEntries(answer_text, o, ver)
        IN /\ orig' = o
           /\ v' = ver
           /\ acc' = Accumulate(acc, entries)
           /\ log' = log \o entries
    /\ npairs' = npairs + 1
    /\ UNCHANGED <<answer_text, threshold, combine, soft, hard, pc, splitVars, verVars>>

\* The loop is exhausted: combine, threshold, merge and return (lines 58-66).
Finish ==
    /\ pc = "loop"
    /\ soft' = SoftOf(acc, combine)
    /\ hard' = HardOf(SoftOf(acc, combine), threshold)
    /\ pc' = "done"
    /\ UNCHANGED <<answer_text, threshold, combine, orig, v, npairs, acc, log, splitVars, verVars>>

AggNext == Iterate \/ Finish

SpecAgg == AggInit /\ [][AggNext]_vars

-----------------------------------------------------------------------------
\* Inputs of split_en_general: texts assembled from a few lexical pieces.

QPieces == {<<"I", "s", " ">>, <<"W", "h", "o", " ">>, <<"a", "?">>, <<"a">>, <<"-", " ">>}
APieces ==
    {<<"a", ".">>, <<" ">>, <<"\n">>, <<"-", " ">>, <<"N", "o", " ">>,
     <<"N", "o", ",", " ">>, <<Ellipsis>>}

RECURSIVE Concat(_)
Concat(ps) == IF ps = <<>> THEN <<>> ELSE ps[1] \o Concat(Tail(ps))

Texts(pieces, n) == {Concat(ps) : ps \in SeqsUpTo(pieces, n)}

\* The aggregator is not running.
AggIdle ==
    /\ answer_text = <<>>
    /\ threshold = DefaultThreshold
    /\ combine = DefaultCombine
    /\ orig = <<>>
    /\ v = NoVerif
    /\ npairs = 0
    /\ acc = <<>>
    /\ log = <<>>
    /\ soft = <<>>
    /\ hard = <<>>
    /\ pc = "idle"

\* The end-to-end scenarios: a yes/no question with its answer, and a
\* two-sentence answer without a question.
ParisQuestion ==
    <<"I", "s", " ", "P", "a", "r", "i", "s", " ", "t", "h", "e", " ", "c",
      "a", "p", "i", "t", "a", "l", " ", "o", "f", " ", "F", "r", "a", "n",
      "c", "e", "?">>
ParisAnswer ==
    <<"Y", "e", "s", ",", " ", "P", "a", "r", "i", "s", " ", "i", "s", " ",
      "t", "h", "e", " ", "c", "a", "p", "i", "t", "a", "l", ".">>
TokyoAnswer ==
    <<"T", "o", "k", "y", "o", " ", "h", "o", "s", "t", "e", "d", " ", "t",
      "h", "e", " ", "2", "0", "2", "1", " ", "O", "l", "y", "m", "p", "i",
      "c", "s", ".", " ", "P", "a", "r", "i", "s", " ", "w", "i", "l", "l",
      " ", "h", "o", "s", "t", " ", "i", "n", " ", "2", "0", "2", "4", ".">>
Scenarios == {<<ParisQuestion, ParisAnswer>>, <<<<>>, TokyoAnswer>>}

\* Questions that start with the other auxiliaries: DO, a modal, HAVE.
AuxQuestions ==
    {<<"D", "o", " ", "a", " ", "b", "?">>,
     <<"C", "a", "n", " ", "a", " ", "b", "?">>,
     <<"H", "a", "s", " ", "a", " ", "b", "?">>}

SplitInit ==
    /\ \/ /\ model_input \in Texts(QPieces, MaxQPieces) \cup AuxQuestions
          /\ model_output \in Texts(APieces, MaxAPieces)
       \/ \E sc \in Scenarios : model_input = sc[1] /\ model_output = sc[2]
    /\ max_items \in 0..MaxItems
    /\ out = <<>>
    /\ dedup = <<>>
    /\ stage = "qa"
    /\ AggIdle
    /\ VerIdle

q_clean == _clean(model_input)
a_clean == _clean(model_output)

\* (1) yes/no question with an answer (lines 165-169)
QAYesNo ==
    /\ stage = "qa"
    /\ q_clean # <<>> /\ a_clean # <<>>
    /\ _is_yesno_question(q_clean)
    /\ out' = out \o YesNoItems(q_clean, a_clean)
    /\ stage' = "sentences"
    /\ UNCHANGED <<model_input, model_output, max_items, dedup, aggVars, verVars>>

\* (1) wh question with an answer (lines 170-173)
QAWh ==
    /\ stage = "qa"
    /\ q_clean # <<>> /\ a_clean # <<>>
    /\ ~_is_yesno_question(q_clean)
    /\ _is_wh_question(q_clean)
    /\ out' = out \o WhItems(q_clean, a_clean)
    /\ stage' = "sentences"
    /\ UNCHANGED <<model_input, model_output, max_items, dedup, aggVars, verVars>>

\* (1) no question / no answer / unclassified question: nothing is derived
QANone ==
    /\ stage = "qa"
    /\ \/ q_clean = <<>>
       \/ a_clean = <<>>
       \/ (~_is_yesno_question(q_clean) /\ ~_is_wh_question(q_clean))
    /\ stage' = "sentences"
    /\ UNCHANGED <<model_input, model_output, max_items, out, dedup, aggVars, verVars>>

\* (2) sentences of the ORIGINAL answer (lines 176-183)
AnswerSentences ==
    /\ stage = "sentences"
    /\ out' = IF a_clean # <<>>
              THEN out \o SentenceItems(model_output, Sentences(model_output), "answer")
              ELSE out
    /\ stage' = "bullets"
    /\ UNCHANGED <<model_input, model_output, max_items, dedup, aggVars, verVars>>

\* (3) bullet / numbered lines of the input, then of the answer (lines 186-191)
BulletLines ==
    /\ stage = "bullets"
    /\ out' = out \o BulletItems(model_input, _extract_bullets(model_input), "input_line")
                  \o BulletItems(model_output, _extract_bullets(model_output), "answer")
    /\ stage' = "fallback"
    /\ UNCHANGED <<model_input, model_output, max_items, dedup, aggVars, verVars>>

\* (4) no answer and the input is a statement: its sentences (lines 194-200)
InputFallback ==
    /\ stage = "fallback"
    /\ out' = IF a_clean = <<>> /\ q_clean # <<>> /\ ~EndsWith(q_clean, "?")
              THEN out \o SentenceItems(model_input, Sentences(model_input), "input_line")
              ELSE out
    /\ stage' = "dedup"
    /\ UNCHANGED <<model_input, model_output, max_items, dedup, aggVars, verVars>>

\* Deduplicate and cap, return dedup (lines 203-212)
DedupAndCap ==
    /\ stage = "dedup"
    /\ dedup' = DedupLoop(out, {}, <<>>, max_items)
    /\ stage' = "return"
    /\ UNCHANGED <<model_input, model_output, max_items, out, aggVars, verVars>>

SplitNext ==
    \/ QAYesNo
    \/ QAWh
    \/ QANone
    \/ AnswerSentences
    \/ BulletLines
    \/ InputFallback
    \/ DedupAndCap

SpecSplit == SplitInit /\ [][SplitNext]_vars

-----------------------------------------------------------------------------
\* One call of verify_word_probs.

NTokens == Len(_tokenize_with_spans(vanchor))

VerInit ==
    /\ vanchor \in VerifyAnchors
    /\ vmode \in {"offline", "nocontext", "online"}
    /\ response \in Responses
    /\ ret = NoReturn
    /\ vpc = "call"
    /\ AggIdle
    /\ SplitIdle

\* OFFLINE or no API key: zeros (lines 57-59)
VerifyOffline ==
    /\ vpc = "call"
    /\ vmode = "offline"
    /\ ret' = Returned("UNKNOWN", Repeat(0, NTokens))
    /\ vpc' = "done"
    /\ UNCHANGED <<vanchor, vmode, response, aggVars, splitVars>>

\* empty context: neutral values (lines 60-62)
VerifyEmptyContext ==
    /\ vpc = "call"
    /\ vmode = "nocontext"
    /\ ret' = Returned("UNKNOWN", Repeat(NeutralProb, NTokens))
    /\ vpc' = "done"
    /\ UNCHANGED <<vanchor, vmode, response, aggVars, splitVars>>

\* the call or json.loads raised inside the try (lines 120-125)
VerifyParseError ==
    /\ vpc = "call"
    /\ vmode = "online"
    /\ response.kind = "unparseable"
    /\ ret' = Returned("UNKNOWN", Repeat(NeutralProb, NTokens))
    /\ vpc' = "done"
    /\ UNCHANGED <<vanchor, vmode, response, aggVars, splitVars>>

\* the response parsed: validate and coerce (lines 127-141)
VerifyCoerce ==
    /\ vpc = "call"
    /\ vmode = "online"
    /\ response.kind # "unparseable"
    /\ ret' = CoerceResponse(NTokens, response)
    /\ vpc' = "done"
    /\ UNCHANGED <<vanchor, vmode, response, aggVars, splitVars>>

VerNext ==
    \/ VerifyOffline
    \/ VerifyEmptyContext
    \/ VerifyParseError
    \/ VerifyCoerce

SpecVerify == VerInit /\ [][VerNext]_vars

-----------------------------------------------------------------------------
\* src/src/pipeline.py: HalluSearch_inference, for one input record.  The
\* record is split, the answer-origin pieces are verified, and their anchors
\* are aggregated over the answer.

\* Defaults of HalluSearch_inference: max_items_per_sample.
DefaultMaxItems == 30

\* The records: a question (none, a wh question, a yes/no question) and an
\* answer assembled from sentences and separators.
PipeQuestions == {<<>>, <<"W", "h", "o", " ", "a", "?">>, <<"I", "s", " ", "a", "?">>}
PipePieces == {<<"b", ".">>, <<"a", " ", "b", ".">>, <<" ">>, <<"\n">>}
PipeProbs == {0, 50, 90}

\* ans_originals: the anchors of the pieces of origin "answer", in order.
AnsOriginals(pieces) ==
    LET sel == SelectSeqIdx(pieces,
                            [k \in 1..Len(pieces) |-> pieces[k].origin = "answer"],
                            1)
    IN [k \in 1..Len(sel) |-> sel[k].original_substring]

\* What verify_word_probs returns for an anchor: a dict whose token_probs has
\* one entry in [0,1] per whitespace token of the anchor.
VerifyResults(o) ==
    LET n == Len(_tokenize_with_spans(o))
    IN {[isdict |-> TRUE, has_token_probs |-> TRUE, token_probs |-> p] :
            p \in [1..n -> PipeProbs]}

\* question/answer are read from the record and stripped; the splitter starts.
PipeInit ==
    /\ \E q \in PipeQuestions,
          a \in Texts(PipePieces, MaxPipePieces) \cup {TokyoAnswer} :
          /\ model_input = Strip(q)
          /\ model_output = Strip(a)
    /\ max_items = DefaultMaxItems
    /\ out = <<>>
    /\ dedup = <<>>
    /\ stage = "qa"
    /\ AggIdle
    /\ VerIdle

\* compute_spans is called on the answer with the defaults (lines 129-135).
PipeCompute ==
    /\ stage = "return"
    /\ pc = "idle"
    /\ answer_text' = model_output
    /\ threshold' = DefaultThreshold
    /\ combine' = DefaultCombine
    /\ pc' = "loop"
    /\ UNCHANGED <<orig, v, npairs, acc, log, soft, hard, splitVars, verVars>>

\* One iteration of zip(ans_originals, verifs_ans) inside compute_spans.
PipeIterate ==
    /\ stage = "return"
    /\ pc = "loop"
    /\ npairs < Len(AnsOriginals(dedup))
    /\ LET o == AnsOriginals(dedup)[npairs + 1]
       IN \E ver \in VerifyResults(o) :
            LET entries == PairEntries(answer_text, o, ver)
            IN /\ orig' = o
               /\ v' = ver
               /\ acc' = Accumulate(acc, entries)
               /\ log' = log \o entries
    /\ npairs' = npairs + 1
    /\ UNCHANGED <<answer_text, threshold, combine, soft, hard, pc, splitVars, verVars>>

\* The pairs are exhausted: combine, threshold, merge; the record is written.
PipeFinish ==
    /\ stage = "return"
    /\ pc = "loop"
    /\ npairs = Len(AnsOriginals(dedup))
    /\ soft' = SoftOf(acc, combine)
    /\ hard' = HardOf(SoftOf(acc, combine), threshold)
    /\ pc' = "done"
    /\ UNCHANGED <<answer_text, threshold, combine, orig, v, npairs, acc, log, splitVars, verVars>>

PipeNext ==
    \/ QAYesNo
    \/ QAWh
    \/ QANone
    \/ AnswerSentences
    \/ BulletLines
    \/ InputFallback
    \/ DedupAndCap
    \/ PipeCompute
    \/ PipeIterate
    \/ PipeFinish

SpecPipe == PipeInit /\ [][PipeNext]_vars

-----------------------------------------------------------------------------
\* Properties of compute_spans.

SoftSpan(k) == <<soft[k].start, soft[k].end>>

\* The soft spans whose combined probability reaches the threshold.
Passing == {SoftSpan(k) : k \in {j \in 1..Len(soft) : soft[j].prob[1] >= threshold * soft[j].prob[2]}}

Inside(p, h) == h[1] <= p[1] /\ p[2] <= h[2]

Cover(spans) == UNION {p[1]..(p[2] - 1) : p \in spans}

LastFound == ~Malformed(v) /\ Find(answer_text, orig) >= 0
LastAbsent == ~Malformed(v) /\ Find(answer_text, orig) < 0

\* C1: the hard labels are sorted by start and are maximal merged runs: every
\* two consecutive labels satisfy next.start > previous.end, every passing span
\* lies in one label, two passing spans where the later one starts at or before
\* the earlier one's end share a label, and a label starts at the least start
\* and ends at the greatest end of its constituents.
C1_HardLabelsAreMaximalRuns ==
    /\ _merge_adjacent(<<<<0, 3>>, <<3, 6>>, <<10, 12>>>>) = <<<<0, 6>>, <<10, 12>>>>
    /\ pc = "done" =>
        /\ \A k \in 1..(Len(hard) - 1) : hard[k + 1][1] > hard[k][2]
        /\ \A p \in Passing : \E k \in 1..Len(hard) : Inside(p, hard[k])
        /\ \A p, q \in Passing :
              (p[1] <= q[1] /\ q[1] <= p[2]) =>
                  \E k \in 1..Len(hard) : Inside(p, hard[k]) /\ Inside(q, hard[k])
        /\ \A k \in 1..Len(hard) :
              LET parts == {p \in Passing : Inside(p, hard[k])}
              IN /\ parts # {}
                 /\ \E p \in parts : p[1] = hard[k][1]
                 /\ \E p \in parts : p[2] = hard[k][2]

\* Two passing spans that only touch (next.start = previous.end) were merged
\* into one label.
C1_Witness ==
    /\ pc = "done"
    /\ \E p, q \in Passing : \E k \in 1..Len(hard) :
          /\ q[1] = p[2]
          /\ hard[k] = <<p[1], q[2]>>

\* C2: a soft span reaches the hard labels iff its combined probability is
\* >= threshold: every soft span at or above the threshold (equality included)
\* lies inside a hard label, and nothing below the threshold takes part, so the
\* hard labels cover no position outside the passing spans and are empty when
\* no span passes.
C2_ThresholdInclusive ==
    pc = "done" =>
        /\ \A k \in 1..Len(soft) :
              soft[k].prob[1] >= threshold * soft[k].prob[2] =>
                  \E h \in 1..Len(hard) : Inside(SoftSpan(k), hard[h])
        /\ Cover(Range(hard)) \subseteq Cover(Passing)
        /\ (Passing = {}) => hard = <<>>

\* A span exactly at the threshold is in a hard label while a span below the
\* threshold stays outside every hard label.
C2_Witness ==
    /\ pc = "done"
    /\ \E k \in 1..Len(soft) :
          /\ soft[k].prob = <<threshold, 1>>
          /\ \E h \in 1..Len(hard) : Inside(SoftSpan(k), hard[h])
    /\ \E k \in 1..Len(soft) :
          /\ soft[k].prob[1] < threshold * soft[k].prob[2]
          /\ \A h \in 1..Len(hard) : ~Inside(SoftSpan(k), hard[h])

\* Every value the loop contributed to one span, in contribution order.
RECURSIVE Contributed(_, _)
Contributed(lg, key) ==
    IF lg = <<>> THEN <<>>
    ELSE (IF lg[1][1] = key THEN <<lg[1][2]>> ELSE <<>>) \o Contributed(Tail(lg), key)

\* C3: the prob of a soft label is the reduction of ALL values contributed to
\* its span: the largest under max (also the policy used when none is given),
\* the arithmetic mean under mean, the smallest under min; [0.2, 0.9] gives
\* 0.9, 0.55 and 0.2.
C3_CombineAllContributions ==
    /\ _combine(<<20, 90>>, "max") = <<90, 1>>
    /\ _combine(<<20, 90>>, "mean") = <<55, 1>>
    /\ _combine(<<20, 90>>, "min") = <<20, 1>>
    /\ pc = "done" =>
        \A k \in 1..Len(soft) :
            LET vals == Contributed(log, SoftSpan(k))
                p == soft[k].prob
            IN /\ vals # <<>>
               /\ combine = "max" =>
                     /\ p[2] = 1
                     /\ p[1] \in Range(vals)
                     /\ \A x \in Range(vals) : x <= p[1]
               /\ combine = "min" =>
                     /\ p[2] = 1
                     /\ p[1] \in Range(vals)
                     /\ \A x \in Range(vals) : x >= p[1]
               /\ combine = "mean" => p[1] * Len(vals) = SumSeq(vals) * p[2]

\* One span received the two values 0.2 and 0.9 from two pairs and was
\* combined by the mean.
C3_Witness ==
    /\ pc = "done"
    /\ combine = "mean"
    /\ npairs = 2
    /\ \E k \in 1..Len(soft) :
          /\ Contributed(log, SoftSpan(k)) = <<20, 90>>
          /\ soft[k].prob = <<55, 1>>

\* C4: a pair whose substring does not occur in answer_text contributes
\* nothing: the iteration that consumes it leaves the accumulator as it was,
\* so under every policy and threshold the labels are those of the input
\* without that pair.
C4_AbsentAnchorIsSkipped ==
    [][(pc = "loop" /\ npairs' = npairs + 1 /\ Find(answer_text, orig') < 0) =>
          /\ acc' = acc
          /\ log' = log
          /\ \A m \in CombineModes, t \in Thresholds :
                /\ SoftOf(acc', m) = SoftOf(acc, m)
                /\ HardOf(SoftOf(acc', m), t) = HardOf(SoftOf(acc, m), t)]_aggVars

\* The last pair consumed was well formed but absent from the answer, after an
\* earlier pair had contributed; the labels were returned.
C4_Witness ==
    /\ pc = "done"
    /\ npairs = 2
    /\ LastAbsent
    /\ orig # <<>>
    /\ v.token_probs # <<>>
    /\ soft # <<>>

\* probs padded with the neutral value and cut to n entries.
PadTruncate(probs, n) == SubSeq(probs \o [k \in 1..n |-> NeutralProb], 1, n)

\* C5: length mismatches are corrected: the tokens of a found anchor receive
\* the probability vector padded with 0.5 and truncated to the token count
\* (token i gets probs[i] when it exists, else 0.5), one entry per token and
\* none for surplus probabilities; a 3-token anchor with one probability
\* contributes [p0, 0.5, 0.5].
C5_PadAndTruncate ==
    [][(pc = "loop" /\ npairs' = npairs + 1 /\ ~Malformed(v') /\ Find(answer_text, orig') >= 0) =>
          LET toks == _tokenize_with_spans(orig')
              base == Find(answer_text, orig')
              want == PadTruncate(v'.token_probs, Len(toks))
              three == <<"a", " ", "a", " ", "a">>
              ex == PairEntries(three, three,
                        [isdict |-> TRUE, has_token_probs |-> TRUE, token_probs |-> <<20>>])
          IN /\ Len(log') = Len(log) + Len(toks)
             /\ \A k \in 1..Len(toks) :
                   log'[Len(log) + k] =
                       <<<<base + toks[k].start, base + toks[k].end>>, want[k]>>
             /\ [k \in 1..Len(ex) |-> ex[k][2]] = <<20, 50, 50>>]_aggVars

\* A found two-token anchor came with a single probability: the second token
\* was given the neutral value.
C5_Witness ==
    /\ npairs > 0
    /\ LastFound
    /\ Len(_tokenize_with_spans(orig)) = 2
    /\ Len(v.token_probs) = 1
    /\ Len(log) >= 2
    /\ log[Len(log)][2] = NeutralProb
    /\ log[Len(log) - 1][2] = v.token_probs[1]

\* C6: every soft label has a prob within [0, 1].
C6_SoftProbWithinUnitInterval ==
    pc = "done" =>
        \A k \in 1..Len(soft) :
            /\ soft[k].prob[1] >= 0
            /\ soft[k].prob[1] <= 100 * soft[k].prob[2]

\* The distinct keys of a log in order of first occurrence.
RECURSIVE FirstSeen(_, _)
FirstSeen(lg, seen) ==
    IF lg = <<>> THEN seen
    ELSE FirstSeen(Tail(lg),
                   IF lg[1][1] \in Range(seen) THEN seen ELSE Append(seen, lg[1][1]))

IsPrefix(s, t) == Len(s) <= Len(t) /\ SubSeq(t, 1, Len(s)) = s

AccKeys(a) == [k \in 1..Len(a) |-> a[k].key]

\* C7: the soft labels hold exactly one entry per distinct span that received
\* a contribution, in the order in which the spans were first encountered
\* (pairs in the given order, the tokens of a pair left to right); a later
\* contribution to a span already seen does not move it.
C7_FirstEncounteredOrder ==
    /\ [](/\ AccKeys(acc) = FirstSeen(log, <<>>)
          /\ pc = "done" => [k \in 1..Len(soft) |-> SoftSpan(k)] = FirstSeen(log, <<>>))
    /\ [][/\ IsPrefix(AccKeys(acc), AccKeys(acc'))
          /\ IsPrefix(log, log')
          /\ \A j, k \in (Len(log) + 1)..Len(log') : j < k => log'[j][1][1] < log'[k][1][1]]_aggVars

\* The labels are returned in an order that is not the order of their offsets,
\* and the span seen first received a second contribution later.
C7_Witness ==
    /\ pc = "done"
    /\ Len(soft) >= 2
    /\ soft[1].start > soft[2].start
    /\ Len(Contributed(log, SoftSpan(1))) = 2
    /\ log[Len(log)][1] = SoftSpan(1)

\* C16: merging neither adds nor loses coverage: the character positions
\* covered by the hard labels, each read as [start, end), are exactly the
\* positions of the soft spans whose combined probability is >= threshold,
\* and every hard label satisfies 0 <= start < end <= len(answer_text).
C16_MergePreservesCoverage ==
    pc = "done" =>
        /\ Cover(Range(hard)) = Cover(Passing)
        /\ \A k \in 1..Len(hard) :
              /\ 0 <= hard[k][1]
              /\ hard[k][1] < hard[k][2]
              /\ hard[k][2] <= Len(answer_text)

\* A label was merged from several passing spans, none of them the whole
\* label, and the labels cover some but not all positions of the answer.
C16_Witness ==
    /\ pc = "done"
    /\ Cardinality(Passing) >= 2
    /\ \E k \in 1..Len(hard) : hard[k] \notin Passing
    /\ Cover(Range(hard)) # {}
    /\ Cover(Range(hard)) # 0..(Len(answer_text) - 1)

-----------------------------------------------------------------------------
\* Properties of split_en_general.

\* C8: the returned list never holds more than max_items statements, for
\* every max_items >= 0.
C8_AtMostMaxItems ==
    stage = "return" => Len(dedup) <= max_items

\* The pair a statement is deduplicated by: (lowercased factual_statement,
\* original_substring).
ClaimKey(item) == <<Lower(item.factual_statement), item.original_substring>>

\* The items of a list whose pair did not occur earlier in the list.
FirstOccurrences(items) ==
    SelectSeqIdx(items,
                 [k \in 1..Len(items) |->
                     \A j \in 1..(k - 1) : ClaimKey(items[j]) # ClaimKey(items[k])],
                 1)

Min2(a, b) == IF a <= b THEN a ELSE b

\* C9: no two returned statements share the pair (lowercased
\* factual_statement, original_substring); the returned list is a prefix of
\* the candidate list with every later duplicate removed (first occurrences,
\* in their order), so capping removes only a suffix, and it keeps at least
\* max_items statements when that many exist.
C9_DedupKeepsFirstOccurrences ==
    stage = "return" =>
        LET full == FirstOccurrences(out)
        IN /\ \A j, k \in 1..Len(dedup) : j # k => ClaimKey(dedup[j]) # ClaimKey(dedup[k])
           /\ IsPrefix(dedup, full)
           /\ Len(dedup) >= Min2(Len(full), max_items)

\* The candidate list held a duplicate, and the loop ran past it without
\* reaching the cap: the duplicate was dropped, its first occurrence kept.
C9_Witness ==
    /\ stage = "return"
    /\ Len(FirstOccurrences(out)) < Len(out)
    /\ dedup = FirstOccurrences(out)
    /\ Len(dedup) < max_items

\* C10: every returned statement has a non-empty original_substring that is a
\* verbatim contiguous slice of the raw question or of the raw answer.
C10_AnchorsAreVerbatimSlices ==
    stage = "return" =>
        \A k \in 1..Len(dedup) :
            /\ dedup[k].original_substring # <<>>
            /\ \/ Find(model_input, dedup[k].original_substring) >= 0
               \/ Find(model_output, dedup[k].original_substring) >= 0

\* The leading letters of a token: the word it starts with.
RECURSIVE LeadLetters(_)
LeadLetters(s) ==
    IF s = <<>> \/ s[1] \notin Letters THEN <<>>
    ELSE <<s[1]>> \o LeadLetters(Tail(s))

\* The first word of an answer, without the punctuation that follows it.
FirstWord(a) == LeadLetters(FirstToken(a))

\* The two renderings of a yes/no question: as rewritten for an answer that
\* starts with a neutral word, and for one that starts with "no".
AffirmativeForm(q) == _qa_to_statement_yesno(q, <<"a">>)[1]
NegativeForm(q) == _qa_to_statement_yesno(q, <<"n", "o">>)[1]

YesNoCase ==
    /\ stage \notin {"idle", "qa"}
    /\ q_clean # <<>> /\ a_clean # <<>>
    /\ _is_yesno_question(q_clean)

\* C11: for a yes/no question with a non-empty answer the QA-derived
\* statement is the negative rewriting exactly when the first word of the
\* answer, case ignored, is one of no, nope, nah, false, incorrect, wrong,
\* also when punctuation directly follows that word ("No, ..."); for every
\* other first word it is the affirmative rewriting.
C11_PolarityByFirstWord ==
    YesNoCase =>
        /\ out # <<>>
        /\ out[1].origin = "qa_derived"
        /\ out[1].factual_statement =
              IF Lower(FirstWord(a_clean)) \in NO_WORDS
              THEN NegativeForm(q_clean)
              ELSE AffirmativeForm(q_clean)

ParisStatement ==
    <<"P", "a", "r", "i", "s", " ", "i", "s", " ", "t", "h", "e", " ", "c",
      "a", "p", "i", "t", "a", "l", " ", "o", "f", " ", "F", "r", "a", "n",
      "c", "e", ".">>

\* C12: for the question "Is Paris the capital of France?" and the answer
\* "Yes, Paris is the capital." the first returned statement has origin
\* qa_derived and factual_statement "Paris is the capital of France.".
C12_ParisScenario ==
    (/\ stage = "return"
     /\ max_items >= 1
     /\ model_input = ParisQuestion
     /\ model_output = ParisAnswer) =>
        /\ dedup # <<>>
        /\ dedup[1].origin = "qa_derived"
        /\ dedup[1].factual_statement = ParisStatement

\* C13: on the yes/no path, whichever auxiliary pattern and polarity applies,
\* the original_substring of the QA-derived statement is exactly the first
\* whitespace-delimited token of the answer, punctuation included, and never
\* a longer part of the answer.  The answer is read as the yes/no stage reads
\* it, normalized; where the raw answer holds no ellipsis glyph this is also
\* the first whitespace-delimited token of the raw answer.
C13_YesNoAnchorIsFirstToken ==
    YesNoCase =>
        /\ out # <<>>
        /\ out[1].origin = "qa_derived"
        /\ out[1].original_substring # <<>>
        /\ out[1].original_substring = FirstToken(a_clean)
        /\ \A k \in 1..Len(out[1].original_substring) :
              out[1].original_substring[k] \notin Whitespace
        /\ Ellipsis \notin Range(model_output) =>
              out[1].original_substring = FirstToken(model_output)

\* A question with an auxiliary other than BE was answered with several
\* tokens, the first one ending in punctuation; the statement was returned.
C13_Witness ==
    /\ stage = "return"
    /\ YesNoCase
    /\ model_input \in AuxQuestions
    /\ Len(SplitWS(a_clean)) >= 2
    /\ dedup # <<>>
    /\ dedup[1].origin = "qa_derived"
    /\ dedup[1].original_substring = <<"N", "o", ",">>

-----------------------------------------------------------------------------
\* Properties of the pipeline.

\* The character ranges of the answer's sentences that have visible text.
SentenceRanges ==
    {Sentences(model_output)[k] : k \in
        {j \in 1..Len(Sentences(model_output)) :
            LET r == Sentences(model_output)[j]
            IN Strip(Slice(model_output, r[1], r[2])) # <<>>}}

SentenceText(r) == Slice(model_output, r[1], r[2])

SeveralSentencesNoQuestion ==
    /\ model_input = <<>>
    /\ Cardinality(SentenceRanges) >= 2

\* The entries the latest step handed to the accumulator.
NewEntries == SubSeq(log', Len(log) + 1, Len(log'))

\* C14: for an answer of several sentences and no question, each sentence
\* yields an answer-origin statement anchored to the sentence's exact text,
\* and every soft-label span contributed by a sentence's anchor lies inside
\* the character range of a sentence with that text -- also when the text of
\* a later sentence occurs earlier in the answer.
C14_SentenceSpansInsideSentence ==
    /\ [](stage = "return" /\ SeveralSentencesNoQuestion =>
            \A r \in SentenceRanges :
                \E k \in 1..Len(dedup) :
                    /\ dedup[k].origin = "answer"
                    /\ dedup[k].original_substring = SentenceText(r))
    /\ [][(/\ stage = "return"
           /\ SeveralSentencesNoQuestion
           /\ pc = "loop"
           /\ npairs' = npairs + 1
           /\ \E r \in SentenceRanges : SentenceText(r) = orig') =>
              \A k \in 1..Len(NewEntries) :
                  \E r \in SentenceRanges :
                      /\ SentenceText(r) = orig'
                      /\ Inside(NewEntries[k][1], r)]_vars

-----------------------------------------------------------------------------
\* Properties of verify_word_probs.

\* C15: whatever the verifier responds (unparseable text, token_probs missing
\* or not a list, too short, too long, out-of-range or non-numeric entries,
\* an unrecognized verdict), verify_word_probs raises no error and returns
\* one probability in [0,1] per whitespace token of the anchor, with 0.5 for
\* every missing or invalid entry, and a verdict that is a recognized label
\* or UNKNOWN.
C15_MalformedResponseNeverRaises ==
    (vpc = "done" /\ vmode = "online") =>
        /\ ~ret.raised
        /\ Len(ret.token_probs) = NTokens
        /\ \A k \in 1..NTokens :
              /\ ret.token_probs[k] >= 0
              /\ ret.token_probs[k] <= 100
              /\ (\/ ~(response.kind = "object" /\ response.has_probs /\ response.is_list)
                  \/ k > Len(response.items)
                  \/ response.items[k].t \notin {"num", "numstr"}) =>
                    ret.token_probs[k] = NeutralProb
        /\ ret.verdict \in RecognizedVerdicts \cup {"UNKNOWN"}
        /\ (response.verdict \notin RecognizedVerdicts) => ret.verdict = "UNKNOWN"

====

